---- MODULE Spec2Model ----
(***************************************************************************)
(* Model of app.py of the Pathway Overlap Analyzer: the catalog parser     *)
(* (get_all_kegg_pathways), the record parser (get_pathway_data) and the   *)
(* main script (selection, overlap tables, network graph).                 *)
(* A Python str is a sequence of one-character strings.                    *)
(***************************************************************************)
EXTENDS Integers, Sequences, FiniteSets, Bags, TLC

VARIABLES
    \* get_pathway_data
    data, lines, pos, gene_record, metabolite_record, genes, metabolites, rpc,
    \* get_all_kegg_pathways
    pathways_raw, cat_lines, cat_pos, d, cpc,
    \* the script: session state (widgets, st.cache_data) and the locals of a run
    options, kegg, cache, sel, view_choice, apc, fetch_pos, p2data, p2g, p2m,
    gene_counts, metabolite_counts, genes_by_freq, metabolites_by_freq,
    gene_pages, metabolite_pages, G

recVars == <<data, lines, pos, gene_record, metabolite_record, genes, metabolites, rpc>>
catVars == <<pathways_raw, cat_lines, cat_pos, d, cpc>>
appVars ==
    <<options, kegg, cache, sel, view_choice, apc, fetch_pos, p2data, p2g, p2m,
      gene_counts, metabolite_counts, genes_by_freq, metabolites_by_freq,
      gene_pages, metabolite_pages, G>>
vars == <<recVars, catVars, appVars>>

(***************************************************************************)
(* Bounds of the model                                                     *)
(***************************************************************************)
MaxLines == 3
MaxCatLines == 3

(***************************************************************************)
(* str methods                                                             *)
(***************************************************************************)
Digits == {"0", "1", "2", "3", "4", "5", "6", "7", "8", "9"}
Whitespace == {" ", "\t", "\n"}

Sp(n) == [i \in 1..n |-> " "]

\* s[k:]
From(s, k) == IF Len(s) <= k THEN <<>> ELSE SubSeq(s, k + 1, Len(s))

\* s.startswith(p)
StartsWith(s, p) == Len(s) >= Len(p) /\ SubSeq(s, 1, Len(p)) = p

\* s.isdigit()
IsDigit(s) == Len(s) > 0 /\ \A i \in 1..Len(s) : s[i] \in Digits

RECURSIVE LStrip(_)
LStrip(s) == IF s # <<>> /\ Head(s) \in Whitespace THEN LStrip(Tail(s)) ELSE s

RECURSIVE RStrip(_)
RStrip(s) ==
    IF s # <<>> /\ s[Len(s)] \in Whitespace THEN RStrip(SubSeq(s, 1, Len(s) - 1)) ELSE s

\* s.strip()
Strip(s) == RStrip(LStrip(s))

\* index of the first occurrence of sep in s at or after position i, 0 if none
RECURSIVE Find(_, _, _)
Find(s, sep, i) ==
    IF i + Len(sep) - 1 > Len(s) THEN 0
    ELSE IF SubSeq(s, i, i + Len(sep) - 1) = sep THEN i
    ELSE Find(s, sep, i + 1)

\* s.split(sep)
RECURSIVE SplitOn(_, _)
SplitOn(s, sep) ==
    LET k == Find(s, sep, 1)
    IN IF k = 0 THEN <<s>>
       ELSE <<SubSeq(s, 1, k - 1)>> \o SplitOn(From(s, k + Len(sep) - 1), sep)

\* s.replace(old, new)
RECURSIVE Replace(_, _, _)
Replace(s, old, new) ==
    LET k == Find(s, old, 1)
    IN IF k = 0 THEN s
       ELSE SubSeq(s, 1, k - 1) \o new \o Replace(From(s, k + Len(old) - 1), old, new)

\* length of the first run of non-whitespace characters of s
RECURSIVE TokenLen(_)
TokenLen(s) == IF s = <<>> \/ Head(s) \in Whitespace THEN 0 ELSE 1 + TokenLen(Tail(s))

\* s.split()
RECURSIVE SplitWs(_)
SplitWs(s) ==
    LET t == LStrip(s)
    IN IF t = <<>> THEN <<>>
       ELSE <<SubSeq(t, 1, TokenLen(t))>> \o SplitWs(From(t, TokenLen(t)))

\* sep.join(parts)
RECURSIVE Join(_, _)
Join(parts, sep) ==
    IF parts = <<>> THEN <<>>
    ELSE IF Len(parts) = 1 THEN parts[1]
    ELSE parts[1] \o sep \o Join(Tail(parts), sep)

(***************************************************************************)
(* dict                                                                    *)
(***************************************************************************)
EmptyDict == [k \in {} |-> <<>>]

\* dct[k] = v
DictSet(dct, k, v) == [x \in DOMAIN dct \cup {k} |-> IF x = k THEN v ELSE dct[x]]

\* dct.values(), as a set
Values(dct) == {dct[k] : k \in DOMAIN dct}

\* a dict with its insertion order
EmptyOd == [keys |-> <<>>, val |-> EmptyDict]

OdSet(od, k, v) ==
    [keys |-> IF k \in DOMAIN od.val THEN od.keys ELSE Append(od.keys, k),
     val |-> DictSet(od.val, k, v)]

\* nx.Graph()
EmptyGraph == [nodes |-> EmptyDict, edges |-> {}]

(***************************************************************************)
(* KEGG flat-file records served by k.get                                  *)
(***************************************************************************)
GENE == <<"G", "E", "N", "E">>
COMPOUND == <<"C", "O", "M", "P", "O", "U", "N", "D">>
NL == <<"\n">>

BRAF == <<"B", "R", "A", "F">>
RAF1 == <<"R", "A", "F", "1">>

LGeneBraf == GENE \o Sp(8) \o <<"6", "7", "3">> \o Sp(2) \o BRAF \o <<";">> \o Sp(1) \o <<"B", "-", "r", "a", "f">>
LGeneNoSymbol == GENE \o Sp(8) \o <<"6", "7", "3">>
LGeneBare == GENE
LContRaf1 == Sp(12) \o <<"5", "8", "9", "4">> \o Sp(2) \o RAF1
LContNoDigit == Sp(12) \o <<"[", "K", "O", "]">> \o Sp(1) \o <<"7">>
LCompound == COMPOUND \o Sp(4) \o <<"C", "7", "6">> \o Sp(2) \o <<"C", "a">>
LContCode == Sp(12) \o <<"C", "9">>
LReference == <<"R", "E", "F">> \o Sp(3) \o <<"1">>
LBlank == <<>>

RecordLines ==
    {LGeneBraf, LGeneNoSymbol, LGeneBare, LContRaf1, LContNoDigit,
     LCompound, LContCode, LReference, LBlank}

RecordLineSeqs == UNION {[1..n -> RecordLines] : n \in 0..MaxLines}

\* what k.get returns: the record text, or nothing
Absent == [absent |-> TRUE, text |-> <<>>]
Present(t) == [absent |-> FALSE, text |-> t]
RecordResponses == {Absent} \cup {Present(Join(ls, NL)) : ls \in RecordLineSeqs}

(***************************************************************************)
(* get_pathway_data                                                        *)
(***************************************************************************)
\* k.get(pathway_id) or ""
OrEmpty(resp) == IF resp.absent THEN <<>> ELSE resp.text

EnterGene_KeepCompound(st) == [st EXCEPT !.gene_record = TRUE]

EnterGene(st) == [st EXCEPT !.gene_record = TRUE, !.metabolite_record = FALSE]

EnterCompound(st) == [st EXCEPT !.metabolite_record = TRUE, !.gene_record = FALSE]

IsContinuation(st, line) ==
    (st.gene_record \/ st.metabolite_record) /\ StartsWith(line, <<" ">>)

ExitSection_Keep(st) == st

ExitSection(st) == [st EXCEPT !.gene_record = FALSE, !.metabolite_record = FALSE]

\* lines 52-56: the entry carried by the content of a section line
AddEntry(st, line_cont) ==
    LET parts == SplitWs(line_cont)
    IN IF line_cont = <<>> \/ parts = <<>> THEN st
       ELSE IF st.gene_record /\ IsDigit(parts[1])
            THEN IF Len(parts) < 2
                 THEN [st EXCEPT !.raised = TRUE]      \* parts[1]: IndexError
                 ELSE [st EXCEPT !.genes = @ \cup {parts[2]}]
       ELSE IF st.metabolite_record
            THEN [st EXCEPT !.metabolites = @ \cup {parts[1]}]
       ELSE st

\* one iteration of the loop over data.split('\n')
ParseLine(st, line) ==
    IF StartsWith(line, GENE) THEN AddEntry(EnterGene(st), Strip(From(line, 12)))
    ELSE IF StartsWith(line, COMPOUND) THEN AddEntry(EnterCompound(st), Strip(From(line, 12)))
    ELSE IF IsContinuation(st, line) THEN AddEntry(st, Strip(line))
    ELSE ExitSection(st)

ParserStart ==
    [gene_record |-> FALSE, metabolite_record |-> FALSE,
     genes |-> {}, metabolites |-> {}, raised |-> FALSE]

ParserState ==
    [gene_record |-> gene_record, metabolite_record |-> metabolite_record,
     genes |-> genes, metabolites |-> metabolites, raised |-> FALSE]

RecIdle ==
    /\ data = Absent
    /\ lines = <<>>
    /\ pos = 0
    /\ gene_record = FALSE
    /\ metabolite_record = FALSE
    /\ genes = {}
    /\ metabolites = {}
    /\ rpc = "idle"

CatIdle ==
    /\ pathways_raw = <<>>
    /\ cat_lines = <<>>
    /\ cat_pos = 0
    /\ d = EmptyDict
    /\ cpc = "idle"

AppIdle ==
    /\ options = EmptyOd
    /\ kegg = EmptyDict
    /\ cache = EmptyDict
    /\ sel = <<>>
    /\ view_choice = "Genes & Metabolites (Combined)"
    /\ apc = "idle"
    /\ fetch_pos = 0
    /\ p2data = EmptyOd
    /\ p2g = EmptyOd
    /\ p2m = EmptyOd
    /\ gene_counts = EmptyDict
    /\ metabolite_counts = EmptyDict
    /\ genes_by_freq = EmptyDict
    /\ metabolites_by_freq = EmptyDict
    /\ gene_pages = EmptyDict
    /\ metabolite_pages = EmptyDict
    /\ G = EmptyGraph

RecInit ==
    /\ CatIdle
    /\ AppIdle
    /\ data \in RecordResponses
    /\ lines = <<>>
    /\ pos = 0
    /\ gene_record = FALSE
    /\ metabolite_record = FALSE
    /\ genes = {}
    /\ metabolites = {}
    /\ rpc = "get"

\* line 44-46 and the split of line 47
RecSplit ==
    /\ rpc = "get"
    /\ lines' = SplitOn(OrEmpty(data), NL)
    /\ rpc' = "loop"
    /\ UNCHANGED <<data, pos, gene_record, metabolite_record, genes, metabolites>>
    /\ UNCHANGED <<catVars, appVars>>

RecLine ==
    /\ rpc = "loop"
    /\ pos < Len(lines)
    /\ LET st == ParseLine(ParserState, lines[pos + 1])
       IN /\ gene_record' = st.gene_record
          /\ metabolite_record' = st.metabolite_record
          /\ genes' = st.genes
          /\ metabolites' = st.metabolites
          /\ rpc' = IF st.raised THEN "raised" ELSE "loop"
    /\ pos' = pos + 1
    /\ UNCHANGED <<data, lines>>
    /\ UNCHANGED <<catVars, appVars>>

RecReturn ==
    /\ rpc = "loop"
    /\ pos = Len(lines)
    /\ rpc' = "returned"
    /\ UNCHANGED <<data, lines, pos, gene_record, metabolite_record, genes, metabolites>>
    /\ UNCHANGED <<catVars, appVars>>

RecNext == RecSplit \/ RecLine \/ RecReturn

RecSpec == RecInit /\ [][RecNext]_vars

(***************************************************************************)
(* Properties of get_pathway_data                                          *)
(***************************************************************************)
\* the step that consumes line pos + 1 of the record
LineStep == rpc = "loop" /\ pos' = pos + 1

IsKeywordLine(line) == StartsWith(line, GENE) \/ StartsWith(line, COMPOUND)

\* the line has no leading digit token
NoLeadingDigit(line) ==
    LET parts == SplitWs(Strip(line)) IN parts = <<>> \/ ~IsDigit(parts[1])

\* C2: the record parser has no error outcome: for every record text it
\* finishes and returns two sets; a GENE-section line whose first token is
\* numeric and which has no second token is ignored and raises nothing.
C2_ParserNeverRaises == rpc # "raised"

\* C3: the identifier added for an accepted gene line is the second token
\* with its trailing ';' stripped, so no element of the gene set ends with ';'.
C3_NoTrailingSemicolon == \A g \in genes : g[Len(g)] # ";"

\* C4 (as stated): once a GENE line has opened the gene section, a following
\* continuation line without a leading digit token ends the section: no later
\* line adds a gene until another GENE line is read.
C4_NoDigitContinuationEndsSection ==
    [][(LineStep /\ \E i \in 1..pos, j \in 1..pos :
            /\ i < j
            /\ StartsWith(lines[i], GENE)
            /\ \A m \in (i + 1)..j : StartsWith(lines[m], <<" ">>)
            /\ NoLeadingDigit(lines[j])
            /\ \A m \in (j + 1)..(pos + 1) : ~StartsWith(lines[m], GENE))
        => genes' = genes]_vars

\* C4 (amended): a line that starts neither with a space nor with GENE ends
\* the gene section: no later line adds a gene until another GENE line is
\* read; an indented line without a leading digit token read inside the gene
\* section adds no gene and leaves the section open.
C4_UnindentedLineEndsSection ==
    [][LineStep =>
        /\ (\E j \in 1..pos :
              /\ ~StartsWith(lines[j], <<" ">>)
              /\ ~StartsWith(lines[j], GENE)
              /\ \A m \in (j + 1)..(pos + 1) : ~StartsWith(lines[m], GENE))
           => genes' = genes
        /\ (gene_record /\ StartsWith(lines[pos + 1], <<" ">>) /\ NoLeadingDigit(lines[pos + 1]))
           => (genes' = genes /\ gene_record')]_vars

C4_Witness ==
    /\ rpc = "returned"
    /\ lines = <<LGeneBraf, LReference, LContRaf1>>
    /\ Cardinality(genes) = 1

\* C5: the line loop is a machine over IDLE, IN_GENE, IN_COMPOUND with at most
\* one section active; a GENE line makes IN_GENE the only active state, a
\* COMPOUND line makes IN_COMPOUND the only active state, a line that is neither
\* a keyword line nor an indented line inside a section returns to IDLE, and in
\* IDLE no line that is not a keyword line adds an identifier to either set.
C5_SectionStateMachine ==
    [][LineStep =>
        LET line == lines[pos + 1]
        IN /\ ~(gene_record' /\ metabolite_record')
           /\ StartsWith(line, GENE) => (gene_record' /\ ~metabolite_record')
           /\ StartsWith(line, COMPOUND) => (metabolite_record' /\ ~gene_record')
           /\ (/\ ~IsKeywordLine(line)
               /\ ~((gene_record \/ metabolite_record) /\ StartsWith(line, <<" ">>)))
              => (~gene_record' /\ ~metabolite_record')
           /\ (~gene_record /\ ~metabolite_record /\ ~IsKeywordLine(line))
              => (genes' = genes /\ metabolites' = metabolites)]_vars

C5_Witness ==
    /\ rpc = "returned"
    /\ lines = <<LCompound, LReference, LContCode>>
    /\ metabolites = {<<"C", "7", "6">>}
    /\ genes = {}
    /\ ~gene_record /\ ~metabolite_record

(***************************************************************************)
(* Pathway index served by k.list("pathway/hsa")                           *)
(***************************************************************************)
PATH == <<"p", "a", "t", "h", ":">>
TAB == <<"\t">>
DASH == <<" ", "-", " ">>

CLFirst == PATH \o <<"h", "1">> \o TAB \o <<"A">> \o DASH \o <<"x">>
CLSameName == PATH \o <<"h", "2">> \o TAB \o <<"A">> \o DASH \o <<"y">>
CLPlain == <<"h", "3">> \o TAB \o <<"B">>
CLInnerPrefix == PATH \o <<"h">> \o PATH \o <<"4">> \o TAB \o <<"C">> \o DASH \o <<"d">> \o DASH \o <<"e">>
CLNoTab == <<"n">>
CLTwoTabs == <<"a">> \o TAB \o <<"b">> \o TAB \o <<"c">>
CLEmptyName == <<"h", "5">> \o TAB
CLBlank == <<>>

CatalogLines ==
    {CLFirst, CLSameName, CLPlain, CLInnerPrefix, CLNoTab, CLTwoTabs, CLEmptyName, CLBlank}

CatalogTexts ==
    {Join(ls, NL) : ls \in UNION {[1..n -> CatalogLines] : n \in 0..MaxCatLines}}

(***************************************************************************)
(* get_all_kegg_pathways                                                   *)
(***************************************************************************)
\* pid.replace('path:', '')
CanonicalId(pid) == Replace(pid, PATH, <<>>)

\* name_desc.split(' - ')[0]
DisplayName(name_desc) == SplitOn(name_desc, DASH)[1]

CatInit ==
    /\ RecIdle
    /\ AppIdle
    /\ pathways_raw \in CatalogTexts
    /\ cat_lines = <<>>
    /\ cat_pos = 0
    /\ d = EmptyDict
    /\ cpc = "list"

\* lines 35-37: pathways_raw.strip().split('\n')
CatSplit ==
    /\ cpc = "list"
    /\ cat_lines' = SplitOn(Strip(pathways_raw), NL)
    /\ cpc' = "loop"
    /\ UNCHANGED <<pathways_raw, cat_pos, d>>
    /\ UNCHANGED <<recVars, appVars>>

\* lines 38-39; unpacking anything but two fields raises ValueError
CatLine ==
    /\ cpc = "loop"
    /\ cat_pos < Len(cat_lines)
    /\ LET fields == SplitOn(cat_lines[cat_pos + 1], TAB)
       IN IF Len(fields) # 2
          THEN /\ cpc' = "raised"
               /\ d' = d
          ELSE /\ cpc' = "loop"
               /\ d' = DictSet(d, DisplayName(fields[2]), CanonicalId(fields[1]))
    /\ cat_pos' = cat_pos + 1
    /\ UNCHANGED <<pathways_raw, cat_lines>>
    /\ UNCHANGED <<recVars, appVars>>

CatReturn ==
    /\ cpc = "loop"
    /\ cat_pos = Len(cat_lines)
    /\ cpc' = "returned"
    /\ UNCHANGED <<pathways_raw, cat_lines, cat_pos, d>>
    /\ UNCHANGED <<recVars, appVars>>

CatNext == CatSplit \/ CatLine \/ CatReturn

CatSpec == CatInit /\ [][CatNext]_vars

(***************************************************************************)
(* Properties of get_all_kegg_pathways                                     *)
(***************************************************************************)
Malformed(line) == Len(SplitOn(line, TAB)) # 2

\* the first field with only a leading 'path:' removed
WithoutLeadingPrefix(pid) == IF StartsWith(pid, PATH) THEN From(pid, Len(PATH)) ELSE pid

NameOfLine(line) == DisplayName(SplitOn(line, TAB)[2])

\* index of the last catalog line whose display name is name
LastLineNamed(name) ==
    CHOOSE i \in 1..Len(cat_lines) :
        /\ NameOfLine(cat_lines[i]) = name
        /\ \A j \in (i + 1)..Len(cat_lines) : NameOfLine(cat_lines[j]) # name

\* C8: the catalog parser has exactly two outcomes: if some line does not
\* split on tab into exactly two fields the load fails and no mapping is
\* returned; otherwise each display name maps to the first field, with only
\* its leading 'path:' removed, of the last line carrying that name.
C8_CatalogOutcome ==
    cpc \in {"returned", "raised"} =>
        IF \E i \in 1..Len(cat_lines) : Malformed(cat_lines[i])
        THEN cpc = "raised"
        ELSE /\ cpc = "returned"
             /\ DOMAIN d = {NameOfLine(cat_lines[i]) : i \in 1..Len(cat_lines)}
             /\ \A name \in DOMAIN d :
                    d[name] = WithoutLeadingPrefix(SplitOn(cat_lines[LastLineNamed(name)], TAB)[1])

(***************************************************************************)
(* The script: sidebar selection, fetch, overlap tables, network graph     *)
(***************************************************************************)
max_selections == 15

Combined == "Genes & Metabolites (Combined)"
GenesOnly == "Genes Only"
MetabolitesOnly == "Metabolites Only"
Views == {Combined, GenesOnly, MetabolitesOnly}

Range(seq) == {seq[i] : i \in 1..Len(seq)}

\* the whole of get_pathway_data on one response of k.get
RECURSIVE ParseLines(_, _, _)
ParseLines(st, ls, i) ==
    IF i > Len(ls) \/ st.raised THEN st ELSE ParseLines(ParseLine(st, ls[i]), ls, i + 1)

get_pathway_data(resp) == ParseLines(ParserStart, SplitOn(OrEmpty(resp), NL), 1)

\* line 95: the dict a run starts to fill
NewRunData_KeepOld(old) == old

NewRunData(old) == EmptyOd

\* lines 96-97: {n: data[i] for n, data in p2data.items()}
Project(p2, i) == [keys |-> p2.keys, val |-> [n \in DOMAIN p2.val |-> p2.val[n][i]]]

\* lines 101, 122: [x for xs in p2.values() for x in xs], as a multiset
RECURSIVE Flatten(_, _)
Flatten(p2, i) ==
    IF i > Len(p2.keys) THEN EmptyBag
    ELSE SetToBag(p2.val[p2.keys[i]]) (+) Flatten(p2, i + 1)

\* Counter(flat)
Counter(flat) == [x \in BagToSet(flat) |-> CopiesIn(x, flat)]

\* lines 103, 124; n is len(sel)
by_freq_FromOne(counts, n) == [cnt \in 1..n |-> {x \in DOMAIN counts : counts[x] = cnt}]

by_freq(counts, n) == [cnt \in 2..n |-> {x \in DOMAIN counts : counts[x] = cnt}]

\* lines 109, 130: the Pathways column of an entry
MemberPathways_Reversed(p2, x) ==
    LET hit == SelectSeq(p2.keys, LAMBDA n : x \in p2.val[n])
    IN Join([i \in 1..Len(hit) |-> hit[Len(hit) + 1 - i]], <<",", " ">>)

MemberPathways(p2, x) ==
    Join(SelectSeq(p2.keys, LAMBDA n : x \in p2.val[n]), <<",", " ">>)

\* lines 104-109, 125-130: one table per non-empty bucket
Pages(byf, p2) ==
    [freq \in {f \in DOMAIN byf : byf[f] # {}} |->
        {[Id |-> x, Pathways |-> MemberPathways(p2, x)] : x \in byf[freq]}]

\* G.add_node(key, **attrs): attributes of an existing node are updated
Merge(old, new) ==
    [a \in DOMAIN old \cup DOMAIN new |-> IF a \in DOMAIN new THEN new[a] ELSE old[a]]

\* for key in attrs: G.add_node(key, **attrs[key])
AddNodes(Gr, attrs) ==
    [nodes |-> [k \in DOMAIN Gr.nodes \cup DOMAIN attrs |->
                   IF k \notin DOMAIN attrs THEN Gr.nodes[k]
                   ELSE IF k \in DOMAIN Gr.nodes THEN Merge(Gr.nodes[k], attrs[k])
                   ELSE attrs[k]],
     edges |-> Gr.edges]

\* for p, xs in p2.items(): for x in xs: G.add_edge(p, x)
AddEdges(Gr, p2) ==
    LET pairs == {<<p, x>> \in (DOMAIN p2.val) \X (UNION {p2.val[n] : n \in DOMAIN p2.val}) :
                     x \in p2.val[p]}
        ends == UNION {{pr[1], pr[2]} : pr \in pairs}
    IN [nodes |-> [k \in DOMAIN Gr.nodes \cup ends |->
                      IF k \in DOMAIN Gr.nodes THEN Gr.nodes[k] ELSE EmptyDict],
        edges |-> Gr.edges \cup {{pr[1], pr[2]} : pr \in pairs}]

PathwayAttrs(p2) == [p \in DOMAIN p2.val |-> [type |-> "pathway"]]

IdAttrs(counts, kind) == [x \in DOMAIN counts |-> [type |-> kind, count |-> counts[x]]]

\* lines 148-167
BuildGraph(view, pg, pm, gc, mc) ==
    IF view = Combined
    THEN AddEdges(AddEdges(AddNodes(AddNodes(AddNodes(EmptyGraph, PathwayAttrs(pg)),
                                             IdAttrs(gc, "gene")),
                                    IdAttrs(mc, "metabolite")), pg), pm)
    ELSE IF view = GenesOnly
    THEN AddEdges(AddNodes(AddNodes(EmptyGraph, PathwayAttrs(pg)), IdAttrs(gc, "gene")), pg)
    ELSE AddEdges(AddNodes(AddNodes(EmptyGraph, PathwayAttrs(pm)), IdAttrs(mc, "metabolite")), pm)

(***************************************************************************)
(* The pathways offered in the sidebar and their KEGG records              *)
(***************************************************************************)
NameP == <<"P">>
NameQ == <<"Q">>
NameR == <<"R">>
IdX == <<"X">>
IdY == <<"Y">>

GeneLine(tok) == GENE \o Sp(8) \o <<"1">> \o Sp(2) \o tok
GeneCont(tok) == Sp(12) \o <<"2">> \o Sp(2) \o tok
CompoundLine(tok) == COMPOUND \o Sp(4) \o tok
CompoundCont(tok) == Sp(12) \o tok

AppResponses ==
    {Absent,
     Present(Join(<<GeneLine(IdX), GeneCont(IdY)>>, NL)),
     Present(Join(<<GeneLine(IdX), CompoundLine(IdX)>>, NL)),
     Present(Join(<<CompoundLine(IdX), CompoundCont(NameP)>>, NL)),
     Present(Join(<<GeneLine(NameP)>>, NL)),
     Present(GENE \o Sp(8) \o <<"1">>)}

SidebarOptions ==
    [keys |-> <<NameP, NameQ, NameR>>,
     val |-> (NameP :> <<"h", "1">>) @@ (NameQ :> <<"h", "2">>) @@ (NameR :> <<"h", "3">>)]

\* sequences of distinct option names, as st.multiselect returns them
Selections(opts) ==
    {s \in UNION {[1..n -> Range(opts.keys)] : n \in 0..Len(opts.keys)} :
        /\ Len(s) <= max_selections
        /\ \A i, j \in 1..Len(s) : i # j => s[i] # s[j]}

\* list(options.keys())[:8]
Default(opts) == SubSeq(opts.keys, 1, IF Len(opts.keys) < 8 THEN Len(opts.keys) ELSE 8)

\* the locals of a run that has not reached the analysis
NoResults ==
    /\ p2g' = EmptyOd
    /\ p2m' = EmptyOd
    /\ gene_counts' = EmptyDict
    /\ metabolite_counts' = EmptyDict
    /\ genes_by_freq' = EmptyDict
    /\ metabolites_by_freq' = EmptyDict
    /\ gene_pages' = EmptyDict
    /\ metabolite_pages' = EmptyDict
    /\ G' = EmptyGraph

\* a widget change reruns the script from the top
Rerun(newsel) ==
    /\ apc' = IF newsel = <<>> THEN "info" ELSE "fetch"
    /\ fetch_pos' = 0
    /\ p2data' = NewRunData(p2data)
    /\ NoResults

AppInit ==
    /\ RecIdle
    /\ CatIdle
    /\ options = SidebarOptions
    /\ kegg \in [Values(SidebarOptions.val) -> AppResponses]
    /\ cache = EmptyDict
    /\ sel = Default(SidebarOptions)
    /\ view_choice = Combined
    /\ apc = "fetch"
    /\ fetch_pos = 0
    /\ p2data = EmptyOd
    /\ p2g = EmptyOd
    /\ p2m = EmptyOd
    /\ gene_counts = EmptyDict
    /\ metabolite_counts = EmptyDict
    /\ genes_by_freq = EmptyDict
    /\ metabolites_by_freq = EmptyDict
    /\ gene_pages = EmptyDict
    /\ metabolite_pages = EmptyDict
    /\ G = EmptyGraph

\* line 90: the user changes the multiselect; the running script is abandoned
Select ==
    /\ \E newsel \in Selections(options) :
          /\ newsel # sel
          /\ sel' = newsel
          /\ Rerun(newsel)
    /\ UNCHANGED <<options, kegg, cache, view_choice>>
    /\ UNCHANGED <<recVars, catVars>>

\* line 144: the user changes the radio of a rendered page
ChooseView ==
    /\ apc = "done"
    /\ \E v \in Views :
          /\ v # view_choice
          /\ view_choice' = v
    /\ Rerun(sel)
    /\ UNCHANGED <<options, kegg, cache, sel>>
    /\ UNCHANGED <<recVars, catVars>>

\* line 95, one pathway: get_pathway_data(options[n]) through st.cache_data
Fetch ==
    /\ apc = "fetch"
    /\ fetch_pos < Len(sel)
    /\ LET n == sel[fetch_pos + 1]
           pid == options.val[n]
       IN IF pid \in DOMAIN cache
          THEN /\ p2data' = OdSet(p2data, n, cache[pid])
               /\ apc' = "fetch"
               /\ cache' = cache
          ELSE LET st == get_pathway_data(kegg[pid])
               IN IF st.raised
                  THEN /\ apc' = "raised"
                       /\ UNCHANGED <<p2data, cache>>
                  ELSE /\ p2data' = OdSet(p2data, n, <<st.genes, st.metabolites>>)
                       /\ cache' = DictSet(cache, pid, <<st.genes, st.metabolites>>)
                       /\ apc' = "fetch"
    /\ fetch_pos' = fetch_pos + 1
    /\ UNCHANGED <<options, kegg, sel, view_choice, p2g, p2m, gene_counts, metabolite_counts,
                   genes_by_freq, metabolites_by_freq, gene_pages, metabolite_pages, G>>
    /\ UNCHANGED <<recVars, catVars>>

\* lines 96-190: the rest of the run
Analyze ==
    /\ apc = "fetch"
    /\ fetch_pos = Len(sel)
    /\ LET pg == Project(p2data, 1)
           pm == Project(p2data, 2)
           gc == Counter(Flatten(pg, 1))
           mc == Counter(Flatten(pm, 1))
           gbf == by_freq(gc, Len(sel))
           mbf == by_freq(mc, Len(sel))
       IN /\ p2g' = pg
          /\ p2m' = pm
          /\ gene_counts' = gc
          /\ metabolite_counts' = mc
          /\ genes_by_freq' = gbf
          /\ metabolites_by_freq' = mbf
          /\ gene_pages' = Pages(gbf, pg)
          /\ metabolite_pages' = Pages(mbf, pm)
          /\ G' = BuildGraph(view_choice, pg, pm, gc, mc)
    /\ apc' = "done"
    /\ UNCHANGED <<options, kegg, cache, sel, view_choice, fetch_pos, p2data>>
    /\ UNCHANGED <<recVars, catVars>>

AppNext == Select \/ ChooseView \/ Fetch \/ Analyze

AppSpec == AppInit /\ [][AppNext]_vars

(***************************************************************************)
(* Properties of the script                                                *)
(***************************************************************************)
\* Counter lookup: a missing key counts 0
CountOf(counts, x) == IF x \in DOMAIN counts THEN counts[x] ELSE 0

\* the number of distinct selected pathways whose set contains x
Frequency(p2, x) ==
    Cardinality({n \in Range(sel) : n \in DOMAIN p2.val /\ x \in p2.val[n]})

Ids(p2) == UNION Values(p2.val)

FrequenciesExact(p2, counts) ==
    \A x \in Ids(p2) \cup DOMAIN counts : CountOf(counts, x) = Frequency(p2, x)

ListedAtLeastTwice(p2, byf, pages) ==
    /\ \A cnt \in DOMAIN byf : \A x \in byf[cnt] : Frequency(p2, x) >= 2
    /\ \A f \in DOMAIN pages : \A e \in pages[f] : Frequency(p2, e.Id) >= 2

\* C1: for genes and for metabolites separately, the computed frequency of
\* every identifier is the number of distinct selected pathways whose set
\* contains it, and every identifier listed in a frequency bucket of the
\* overlap table has frequency at least 2.
C1_FrequencyAndBuckets ==
    apc = "done" =>
        /\ FrequenciesExact(p2g, gene_counts)
        /\ FrequenciesExact(p2m, metabolite_counts)
        /\ ListedAtLeastTwice(p2g, genes_by_freq, gene_pages)
        /\ ListedAtLeastTwice(p2m, metabolites_by_freq, metabolite_pages)

C1_Witness ==
    /\ apc = "done"
    /\ Len(sel) = 3
    /\ \E cnt \in DOMAIN genes_by_freq : genes_by_freq[cnt] # {}
    /\ \E cnt \in DOMAIN metabolites_by_freq : metabolites_by_freq[cnt] # {}
    /\ \E y \in DOMAIN gene_counts : gene_counts[y] = 1

TypeOf(Gr, k) == IF "type" \in DOMAIN Gr.nodes[k] THEN Gr.nodes[k].type ELSE "none"

NodesOfType(Gr, types) == {k \in DOMAIN Gr.nodes : TypeOf(Gr, k) \in types}

\* C6: the 'Genes Only' graph has no metabolite node and no pathway-metabolite
\* edge, and its nodes, their attributes and its edges are the combined
\* graph restricted to pathway and gene nodes and the edges between them.
C6_GenesOnlyIsRestrictionOfCombined ==
    (apc = "done" /\ view_choice = GenesOnly) =>
        LET C == BuildGraph(Combined, p2g, p2m, gene_counts, metabolite_counts)
            kept == NodesOfType(C, {"pathway", "gene"})
        IN /\ NodesOfType(G, {"metabolite"}) = {}
           /\ G.nodes = [k \in kept |-> C.nodes[k]]
           /\ G.edges = {e \in C.edges : e \subseteq kept}

\* C7: in the graph of any view, every gene or metabolite node has a count
\* equal to the number of distinct pathway nodes adjacent to it.
C7_CountIsPathwayDegree ==
    apc = "done" =>
        \A k \in NodesOfType(G, {"gene", "metabolite"}) :
            G.nodes[k].count =
                Cardinality({p \in NodesOfType(G, {"pathway"}) : {p, k} \in G.edges})

\* the selected pathways containing x, in the order of the selection list
InSelectionOrder(p2, x) ==
    Join(SelectSeq(sel, LAMBDA n : n \in DOMAIN p2.val /\ x \in p2.val[n]), <<",", " ">>)

EntriesInOrder(p2, byf, pages) ==
    /\ \A cnt \in DOMAIN byf : \A x \in byf[cnt] :
           cnt \in DOMAIN pages /\ \E e \in pages[cnt] : e.Id = x
    /\ \A f \in DOMAIN pages : \A e \in pages[f] :
           /\ e.Pathways = InSelectionOrder(p2, e.Id)
           /\ f = Frequency(p2, e.Id)

\* C9: every identifier listed in the overlap table has an entry whose
\* member pathways are exactly the selected pathways whose set contains it,
\* each once, in the order of the selection list.
C9_MemberPathwaysInSelectionOrder ==
    apc = "done" =>
        /\ EntriesInOrder(p2g, genes_by_freq, gene_pages)
        /\ EntriesInOrder(p2m, metabolites_by_freq, metabolite_pages)

C9_Witness ==
    /\ apc = "done"
    /\ sel = <<NameR, NameP, NameQ>>
    /\ 2 \in DOMAIN gene_pages
    /\ \E e \in gene_pages[2] : e.Pathways = NameR \o <<",", " ">> \o NameQ

\* the sets the current selection's records parse to
CurrentSets(n) == get_pathway_data(kegg[options.val[n]])

\* C10: a run aggregates the record results of the current selection only:
\* the keys of p2g and p2m are the current selection, their sets are the
\* parsed records of the selected pathways, and every count, table entry,
\* node and edge comes from those sets.
C10_OnlyCurrentSelection ==
    apc = "done" =>
        /\ p2g.keys = sel /\ DOMAIN p2g.val = Range(sel)
        /\ p2m.keys = sel /\ DOMAIN p2m.val = Range(sel)
        /\ \A n \in Range(sel) :
              /\ p2g.val[n] = CurrentSets(n).genes
              /\ p2m.val[n] = CurrentSets(n).metabolites
        /\ DOMAIN gene_counts = UNION {CurrentSets(n).genes : n \in Range(sel)}
        /\ DOMAIN metabolite_counts = UNION {CurrentSets(n).metabolites : n \in Range(sel)}
        /\ \A f \in DOMAIN gene_pages : \A e \in gene_pages[f] : e.Id \in DOMAIN gene_counts
        /\ \A f \in DOMAIN metabolite_pages : \A e \in metabolite_pages[f] :
              e.Id \in DOMAIN metabolite_counts
        /\ DOMAIN G.nodes \subseteq
              Range(sel) \cup DOMAIN gene_counts \cup DOMAIN metabolite_counts
        /\ \A e \in G.edges : \E n \in Range(sel) :
              \E x \in CurrentSets(n).genes \cup CurrentSets(n).metabolites : e = {n, x}

C10_Witness ==
    /\ apc = "done"
    /\ sel # <<>>
    /\ \E pid \in DOMAIN cache :
          /\ pid \notin {options.val[n] : n \in Range(sel)}
          /\ cache[pid][1] # {}
          /\ cache[pid][1] \cap DOMAIN gene_counts = {}

====
